---------------------------- MODULE Spec2Model ----------------------------
(***************************************************************************)
(* State-machine model of commands/uploader.go: the uploadContext (DryRun, *)
(* uploadedOids), prepareUpload, checkMissing with its collector goroutine *)
(* and upload.  One primary task runs upload; checkMissing adds the check   *)
(* queue's workers and one collector.  Pointers are identified by their     *)
(* position in the candidate list (the code passes *lfs.WrappedPointer).    *)
(***************************************************************************)
EXTENDS Integers, Sequences, FiniteSets

\* ---------------------------------------------------------------- bounds
NumOids == 2
MaxLen == 3
WatchCap == 1
MaxErrors == 2

Oids == 1..NumOids
\* An oid addresses content, so it fixes the size every pointer to it carries.
ObjectSize(oid) == oid
\* *lfs.WrappedPointer as read by this file: Oid and Size (Name is only printed).
Pointers == {[Oid |-> o, Size |-> ObjectSize(o)] : o \in Oids}
CandidateLists == UNION {[1..n -> Pointers] : n \in 0..MaxLen}
\* .git/lfs/objects: for each oid no file (0) or the whole file
LocalStores == {f \in [Oids -> 0..NumOids] : \A o \in Oids : f[o] \in {0, ObjectSize(o)}}
\* An error of q.Errors(): lfs.IsFatalError(err), lfs.GetInnerError(err) != nil.
ErrorKinds == [fatal : BOOLEAN, inner : BOOLEAN]
ErrorLists == UNION {[1..n -> ErrorKinds] : n \in 0..MaxErrors}

VARIABLES
  DryRun,              \* uploadContext.DryRun
  uploadedOids,        \* uploadContext.uploadedOids
  Debugging,           \* package variable Debugging
  localSize,           \* .git/lfs/objects: oid -> size of the stored file, 0 = absent
  pc,                  \* position of the primary task
  unfiltered,          \* argument of the current upload call
  i,                   \* index of the loop the primary task is in
  uploadables,         \* prepareUpload's uploadables / upload's pointers
  missingLocalObjects, \* prepareUpload's missingLocalObjects
  numObjects, totalSize, missingSize,
  checkQueue,          \* the download check queue of checkMissing
  transferc,           \* buffer of the channel returned by checkQueue.Watch()
  emitted,             \* oids sent on transferc so far in this call
  collector,           \* position of the goroutine of checkMissing
  uploadQueue,         \* the transfer queue built by prepareUpload
  printed,             \* lines of Print (dry run), by pointer
  reported,            \* calls of LoggedError / Error while draining
  exitStatus,          \* how the process ended, "" while it runs
  oidsAtCall,          \* uploadedOids when the current upload call began
  sameListAgain,       \* the call repeats the list of the real-mode call that just returned
  existsCalls,         \* calls of lfs.ObjectExistsOfSize in this upload call
  materializeCalls     \* calls of lfs.NewUploadable in this upload call

ctxVars == <<DryRun, uploadedOids, Debugging, localSize>>
prepVars == <<uploadables, missingLocalObjects, numObjects, totalSize, missingSize, existsCalls>>
checkVars == <<checkQueue, transferc, emitted, collector>>
outVars == <<printed, reported, exitStatus>>
callVars == <<oidsAtCall, sameListAgain>>
vars == <<DryRun, uploadedOids, Debugging, localSize, pc, unfiltered, i,
          uploadables, missingLocalObjects, numObjects, totalSize, missingSize,
          checkQueue, transferc, emitted, collector, uploadQueue, printed,
          reported, exitStatus, callVars, existsCalls, materializeCalls>>

\* ------------------------------------------------------------ helpers
OidOf(k) == unfiltered[k].Oid
SizeOf(k) == unfiltered[k].Size
Range(s) == {s[k] : k \in 1..Len(s)}
OidsOfList(s) == {OidOf(s[k]) : k \in 1..Len(s)}
InputOids == {unfiltered[k].Oid : k \in 1..Len(unfiltered)}

RECURSIVE SumSizes(_)
\* sum of Size over a set of positions of the candidate list
SumSizes(S) ==
  IF S = {} THEN 0
  ELSE LET k == CHOOSE x \in S : TRUE IN SizeOf(k) + SumSizes(S \ {k})

\* strictly increasing sequence of positions
Increasing(s) == \A a, b \in 1..Len(s) : a < b => s[a] < s[b]

\* ------------------------------------------------------- uploadContext
SetUploadedReplace(oid) == {oid}
\* c.uploadedOids.Add(oid): the set after the call
SetUploaded(oid) == uploadedOids \cup {oid}

\* c.uploadedOids.Contains(oid)
HasUploaded(oid) == oid \in uploadedOids

\* lfs.ObjectExistsOfSize(oid, size): the object file exists and has that size
ObjectExistsOfSize(oid, size) == localSize[oid] = size

NoCheckQueue == [made |-> FALSE, pending |-> {}, closed |-> FALSE]
NoUploadQueue == [made |-> FALSE, count |-> 0, total |-> 0, skips |-> <<>>,
                  added |-> <<>>, errors |-> <<>>]

\* newUploadContext(dryRun): an empty set; nothing has run yet
Init ==
  /\ DryRun \in BOOLEAN
  /\ Debugging \in BOOLEAN
  /\ uploadedOids = {}
  /\ localSize \in LocalStores
  /\ pc = "ready"
  /\ unfiltered = <<>>
  /\ i = 1
  /\ uploadables = <<>>
  /\ missingLocalObjects = <<>>
  /\ numObjects = 0
  /\ totalSize = 0
  /\ missingSize = 0
  /\ checkQueue = NoCheckQueue
  /\ transferc = <<>>
  /\ emitted = {}
  /\ collector = "none"
  /\ uploadQueue = NoUploadQueue
  /\ printed = <<>>
  /\ reported = <<>>
  /\ exitStatus = ""
  /\ oidsAtCall = {}
  /\ sameListAgain = FALSE
  /\ existsCalls = 0
  /\ materializeCalls = 0

\* ---------------------------------------------------------------- upload
\* A call upload(c, unfiltered) on the context: dry run or prepareUpload.
UploadCall ==
  /\ pc \in {"ready", "returned"}
  /\ \E list \in CandidateLists :
       /\ unfiltered' = list
       /\ sameListAgain' = (~DryRun /\ pc = "returned" /\ list = unfiltered)
  /\ pc' = IF DryRun THEN "dryrun" ELSE "classify"
  /\ i' = 1
  /\ uploadables' = <<>>
  /\ missingLocalObjects' = <<>>
  /\ numObjects' = 0
  /\ totalSize' = 0
  /\ missingSize' = 0
  /\ checkQueue' = NoCheckQueue
  /\ transferc' = <<>>
  /\ emitted' = {}
  /\ collector' = "none"
  /\ uploadQueue' = NoUploadQueue
  /\ printed' = <<>>
  /\ reported' = <<>>
  /\ oidsAtCall' = uploadedOids
  /\ existsCalls' = 0
  /\ materializeCalls' = 0
  /\ UNCHANGED <<ctxVars, exitStatus>>

DryRunStepNoMark ==
  /\ pc = "dryrun"
  /\ i <= Len(unfiltered)
  /\ IF HasUploaded(OidOf(i))
       THEN UNCHANGED <<printed, uploadedOids>>
       ELSE /\ printed' = Append(printed, i)
            /\ UNCHANGED uploadedOids
  /\ i' = i + 1
  /\ UNCHANGED <<DryRun, Debugging, localSize, pc, unfiltered, prepVars, checkVars,
                 uploadQueue, reported, exitStatus, callVars, materializeCalls>>

\* one iteration of the dry-run loop
DryRunStep ==
  /\ pc = "dryrun"
  /\ i <= Len(unfiltered)
  /\ IF HasUploaded(OidOf(i))
       THEN UNCHANGED <<printed, uploadedOids>>
       ELSE /\ printed' = Append(printed, i)
            /\ uploadedOids' = SetUploaded(OidOf(i))
  /\ i' = i + 1
  /\ UNCHANGED <<DryRun, Debugging, localSize, pc, unfiltered, prepVars, checkVars,
                 uploadQueue, reported, exitStatus, callVars, materializeCalls>>

DryRunFallThrough ==
  /\ pc = "dryrun"
  /\ i > Len(unfiltered)
  /\ pc' = "classify"
  /\ i' = 1
  /\ UNCHANGED <<ctxVars, unfiltered, prepVars, checkVars, uploadQueue, outVars,
                 callVars, materializeCalls>>

\* the return that ends the dry run
DryRunReturn ==
  /\ pc = "dryrun"
  /\ i > Len(unfiltered)
  /\ pc' = "returned"
  /\ UNCHANGED <<ctxVars, unfiltered, i, prepVars, checkVars, uploadQueue, outVars,
                 callVars, materializeCalls>>

\* ------------------------------------------------------- prepareUpload
ClassifyStepLocalOnlyTotal ==
  /\ pc = "classify"
  /\ i <= Len(unfiltered)
  /\ IF HasUploaded(OidOf(i))
       THEN UNCHANGED prepVars
       ELSE /\ numObjects' = numObjects + 1
            /\ existsCalls' = existsCalls + 1
            /\ IF ObjectExistsOfSize(OidOf(i), SizeOf(i))
                 THEN /\ uploadables' = Append(uploadables, i)
                      /\ totalSize' = totalSize + SizeOf(i)
                      /\ UNCHANGED <<missingLocalObjects, missingSize>>
                 ELSE /\ missingLocalObjects' = Append(missingLocalObjects, i)
                      /\ missingSize' = missingSize + SizeOf(i)
                      /\ UNCHANGED <<uploadables, totalSize>>
  /\ i' = i + 1
  /\ UNCHANGED <<ctxVars, pc, unfiltered, checkVars, uploadQueue, outVars,
                 callVars, materializeCalls>>

ClassifyStepMarks ==
  /\ pc = "classify"
  /\ i <= Len(unfiltered)
  /\ IF HasUploaded(OidOf(i))
       THEN UNCHANGED <<prepVars, uploadedOids>>
       ELSE /\ numObjects' = numObjects + 1
            /\ totalSize' = totalSize + SizeOf(i)
            /\ existsCalls' = existsCalls + 1
            /\ uploadedOids' = SetUploaded(OidOf(i))
            /\ IF ObjectExistsOfSize(OidOf(i), SizeOf(i))
                 THEN /\ uploadables' = Append(uploadables, i)
                      /\ UNCHANGED <<missingLocalObjects, missingSize>>
                 ELSE /\ missingLocalObjects' = Append(missingLocalObjects, i)
                      /\ missingSize' = missingSize + SizeOf(i)
                      /\ UNCHANGED uploadables
  /\ i' = i + 1
  /\ UNCHANGED <<DryRun, Debugging, localSize, pc, unfiltered, checkVars, uploadQueue,
                 outVars, callVars, materializeCalls>>

ClassifyStepNoDedup ==
  /\ pc = "classify"
  /\ i <= Len(unfiltered)
  /\ numObjects' = numObjects + 1
  /\ totalSize' = totalSize + SizeOf(i)
  /\ existsCalls' = existsCalls + 1
  /\ IF ObjectExistsOfSize(OidOf(i), SizeOf(i))
       THEN /\ uploadables' = Append(uploadables, i)
            /\ UNCHANGED <<missingLocalObjects, missingSize>>
       ELSE /\ missingLocalObjects' = Append(missingLocalObjects, i)
            /\ missingSize' = missingSize + SizeOf(i)
            /\ UNCHANGED uploadables
  /\ i' = i + 1
  /\ UNCHANGED <<ctxVars, pc, unfiltered, checkVars, uploadQueue, outVars,
                 callVars, materializeCalls>>

\* one iteration of the loop that separates the candidates
ClassifyStep ==
  /\ pc = "classify"
  /\ i <= Len(unfiltered)
  /\ IF HasUploaded(OidOf(i))
       THEN UNCHANGED prepVars
       ELSE /\ numObjects' = numObjects + 1
            /\ totalSize' = totalSize + SizeOf(i)
            /\ existsCalls' = existsCalls + 1
            /\ IF ObjectExistsOfSize(OidOf(i), SizeOf(i))
                 THEN /\ uploadables' = Append(uploadables, i)
                      /\ UNCHANGED <<missingLocalObjects, missingSize>>
                 ELSE /\ missingLocalObjects' = Append(missingLocalObjects, i)
                      /\ missingSize' = missingSize + SizeOf(i)
                      /\ UNCHANGED uploadables
  /\ i' = i + 1
  /\ UNCHANGED <<ctxVars, pc, unfiltered, checkVars, uploadQueue, outVars,
                 callVars, materializeCalls>>

\* ---------------------------------------------------------- checkMissing
\* checkMissing with no missing object: returns at once
CheckMissingEmpty ==
  /\ pc = "classify"
  /\ i > Len(unfiltered)
  /\ Len(missingLocalObjects) = 0
  /\ pc' = "newqueue"
  /\ UNCHANGED <<ctxVars, unfiltered, i, prepVars, checkVars, uploadQueue, outVars,
                 callVars, materializeCalls>>

\* NewDownloadCheckQueue, one Add per missing pointer, Watch, make(done), go func
CheckMissingStart ==
  /\ pc = "classify"
  /\ i > Len(unfiltered)
  /\ Len(missingLocalObjects) > 0
  /\ checkQueue' = [made |-> TRUE, pending |-> Range(missingLocalObjects),
                    closed |-> FALSE]
  /\ collector' = "range"
  /\ pc' = "wait"
  /\ UNCHANGED <<ctxVars, unfiltered, i, prepVars, transferc, emitted, uploadQueue,
                 outVars, callVars, materializeCalls>>

\* A worker of the check queue settles one checkable: the remote either confirms
\* it has the object, and the oid is sent on the watch channel, or it does not.
CheckWorker ==
  /\ checkQueue.made
  /\ \E k \in checkQueue.pending, confirmed \in BOOLEAN :
       /\ checkQueue' = [checkQueue EXCEPT !.pending = @ \ {k}]
       /\ IF confirmed
            THEN /\ Len(transferc) < WatchCap
                 /\ transferc' = Append(transferc, OidOf(k))
                 /\ emitted' = emitted \cup {OidOf(k)}
            ELSE UNCHANGED <<transferc, emitted>>
  /\ UNCHANGED <<ctxVars, pc, unfiltered, i, prepVars, collector, uploadQueue,
                 outVars, callVars, materializeCalls>>

\* The check queue closes the watch channel once every check is settled.
CheckQueueClose ==
  /\ checkQueue.made
  /\ checkQueue.pending = {}
  /\ ~checkQueue.closed
  /\ checkQueue' = [checkQueue EXCEPT !.closed = TRUE]
  /\ UNCHANGED <<ctxVars, pc, unfiltered, i, prepVars, transferc, emitted, collector,
                 uploadQueue, outVars, callVars, materializeCalls>>

CheckQueueWaitSkipsJoin ==
  /\ pc = "wait"
  /\ checkQueue.pending = {}
  /\ checkQueue.closed
  /\ pc' = "newqueue"
  /\ UNCHANGED <<ctxVars, unfiltered, i, prepVars, checkVars, uploadQueue, outVars,
                 callVars, materializeCalls>>

\* checkQueue.Wait() returns to the primary task, which goes on to <-done
CheckQueueWait ==
  /\ pc = "wait"
  /\ checkQueue.pending = {}
  /\ checkQueue.closed
  /\ pc' = "recvdone"
  /\ UNCHANGED <<ctxVars, unfiltered, i, prepVars, checkVars, uploadQueue, outVars,
                 callVars, materializeCalls>>

CollectorRecvMarkAll ==
  /\ collector = "range"
  /\ Len(transferc) > 0
  /\ uploadedOids' = uploadedOids \cup OidsOfList(missingLocalObjects)
  /\ transferc' = Tail(transferc)
  /\ UNCHANGED <<DryRun, Debugging, localSize, pc, unfiltered, i, prepVars,
                 checkQueue, emitted, collector, uploadQueue, outVars, callVars,
                 materializeCalls>>

\* the collector receives one oid from transferc and calls c.SetUploaded(oid)
CollectorRecv ==
  /\ collector = "range"
  /\ Len(transferc) > 0
  /\ uploadedOids' = SetUploaded(Head(transferc))
  /\ transferc' = Tail(transferc)
  /\ UNCHANGED <<DryRun, Debugging, localSize, pc, unfiltered, i, prepVars,
                 checkQueue, emitted, collector, uploadQueue, outVars, callVars,
                 materializeCalls>>

CollectorRangeEndNoSend ==
  /\ collector = "range"
  /\ Len(transferc) = 0
  /\ checkQueue.closed
  /\ collector' = "finished"
  /\ UNCHANGED <<ctxVars, pc, unfiltered, i, prepVars, checkQueue, transferc, emitted,
                 uploadQueue, outVars, callVars, materializeCalls>>

\* the range over transferc ends: the channel is closed and drained
CollectorRangeEnd ==
  /\ collector = "range"
  /\ Len(transferc) = 0
  /\ checkQueue.closed
  /\ collector' = "send"
  /\ UNCHANGED <<ctxVars, pc, unfiltered, i, prepVars, checkQueue, transferc, emitted,
                 uploadQueue, outVars, callVars, materializeCalls>>

DoneRendezvousBeforeDrain ==
  /\ collector \in {"range", "send"}
  /\ pc = "recvdone"
  /\ pc' = "newqueue"
  /\ UNCHANGED <<ctxVars, unfiltered, i, prepVars, checkQueue, transferc, emitted,
                 collector, uploadQueue, outVars, callVars, materializeCalls>>

\* done <- 1 meets <-done (unbuffered channel); checkMissing returns
DoneRendezvous ==
  /\ collector = "send"
  /\ pc = "recvdone"
  /\ collector' = "finished"
  /\ pc' = "newqueue"
  /\ UNCHANGED <<ctxVars, unfiltered, i, prepVars, checkQueue, transferc, emitted,
                 uploadQueue, outVars, callVars, materializeCalls>>

\* ------------------------------------------- prepareUpload, second half
\* lfs.NewUploadQueue(numObjects, totalSize, c.DryRun)
NewUploadQueue ==
  /\ pc = "newqueue"
  /\ uploadQueue' = [made |-> TRUE, count |-> numObjects, total |-> totalSize,
                     skips |-> <<>>, added |-> <<>>, errors |-> <<>>]
  /\ pc' = "build"
  /\ i' = 1
  /\ UNCHANGED <<ctxVars, unfiltered, prepVars, checkVars, outVars, callVars,
                 materializeCalls>>

BuildStepSkipMissingSize ==
  /\ pc = "build"
  /\ i <= Len(missingLocalObjects)
  /\ IF HasUploaded(OidOf(missingLocalObjects[i]))
       THEN /\ uploadQueue' = [uploadQueue EXCEPT !.skips = Append(@, missingSize)]
            /\ UNCHANGED uploadables
       ELSE /\ uploadables' = Append(uploadables, missingLocalObjects[i])
            /\ UNCHANGED uploadQueue
  /\ i' = i + 1
  /\ UNCHANGED <<ctxVars, pc, unfiltered, missingLocalObjects, numObjects, totalSize,
                 missingSize, existsCalls, checkVars, outVars, callVars,
                 materializeCalls>>

BuildStepPrepend ==
  /\ pc = "build"
  /\ i <= Len(missingLocalObjects)
  /\ IF HasUploaded(OidOf(missingLocalObjects[i]))
       THEN /\ uploadQueue' = [uploadQueue EXCEPT
                                 !.skips = Append(@, SizeOf(missingLocalObjects[i]))]
            /\ UNCHANGED uploadables
       ELSE /\ uploadables' = <<missingLocalObjects[i]>> \o uploadables
            /\ UNCHANGED uploadQueue
  /\ i' = i + 1
  /\ UNCHANGED <<ctxVars, pc, unfiltered, missingLocalObjects, numObjects, totalSize,
                 missingSize, existsCalls, checkVars, outVars, callVars,
                 materializeCalls>>

BuildStepNoSkip ==
  /\ pc = "build"
  /\ i <= Len(missingLocalObjects)
  /\ IF HasUploaded(OidOf(missingLocalObjects[i]))
       THEN UNCHANGED <<uploadables, uploadQueue>>
       ELSE /\ uploadables' = Append(uploadables, missingLocalObjects[i])
            /\ UNCHANGED uploadQueue
  /\ i' = i + 1
  /\ UNCHANGED <<ctxVars, pc, unfiltered, missingLocalObjects, numObjects, totalSize,
                 missingSize, existsCalls, checkVars, outVars, callVars,
                 materializeCalls>>

\* one iteration of the loop over missingLocalObjects: Skip or append
BuildStep ==
  /\ pc = "build"
  /\ i <= Len(missingLocalObjects)
  /\ IF HasUploaded(OidOf(missingLocalObjects[i]))
       THEN /\ uploadQueue' = [uploadQueue EXCEPT
                                 !.skips = Append(@, SizeOf(missingLocalObjects[i]))]
            /\ UNCHANGED uploadables
       ELSE /\ uploadables' = Append(uploadables, missingLocalObjects[i])
            /\ UNCHANGED uploadQueue
  /\ i' = i + 1
  /\ UNCHANGED <<ctxVars, pc, unfiltered, missingLocalObjects, numObjects, totalSize,
                 missingSize, existsCalls, checkVars, outVars, callVars,
                 materializeCalls>>

\* return uploadQueue, uploadables: upload goes on with its loop over pointers
PrepareReturn ==
  /\ pc = "build"
  /\ i > Len(missingLocalObjects)
  /\ pc' = "enqueue"
  /\ i' = 1
  /\ UNCHANGED <<ctxVars, unfiltered, prepVars, checkVars, uploadQueue, outVars,
                 callVars, materializeCalls>>

\* ------------------------------------------------- upload, real mode
\* Outcomes of lfs.NewUploadable(p.Oid, p.Name): a unit, an error for which
\* lfs.IsCleanPointerError holds, or any other error.
Materializations == {"unit", "cleanPointerError", "otherError"}

EnqueueStepNoMark ==
  /\ pc = "enqueue"
  /\ i <= Len(uploadables)
  /\ materializeCalls' = materializeCalls + 1
  /\ \E m \in Materializations :
       IF m = "unit"
         THEN /\ uploadQueue' = [uploadQueue EXCEPT !.added = Append(@, uploadables[i])]
              /\ i' = i + 1
              /\ UNCHANGED <<uploadedOids, pc, exitStatus>>
         ELSE /\ exitStatus' = IF m = "cleanPointerError" THEN "Exit" ELSE "ExitWithError"
              /\ pc' = "exited"
              /\ UNCHANGED <<uploadQueue, uploadedOids, i>>
  /\ UNCHANGED <<DryRun, Debugging, localSize, unfiltered, prepVars, checkVars,
                 printed, reported, callVars>>

\* one iteration of the loop over pointers: NewUploadable, then q.Add and
\* c.SetUploaded, or Exit / ExitWithError, which end the process
EnqueueStep ==
  /\ pc = "enqueue"
  /\ i <= Len(uploadables)
  /\ materializeCalls' = materializeCalls + 1
  /\ \E m \in Materializations :
       IF m = "unit"
         THEN /\ uploadQueue' = [uploadQueue EXCEPT !.added = Append(@, uploadables[i])]
              /\ uploadedOids' = SetUploaded(OidOf(uploadables[i]))
              /\ i' = i + 1
              /\ UNCHANGED <<pc, exitStatus>>
         ELSE /\ exitStatus' = IF m = "cleanPointerError" THEN "Exit" ELSE "ExitWithError"
              /\ pc' = "exited"
              /\ UNCHANGED <<uploadQueue, uploadedOids, i>>
  /\ UNCHANGED <<DryRun, Debugging, localSize, unfiltered, prepVars, checkVars,
                 printed, reported, callVars>>

\* q.Wait() returns: the queue has drained and holds its errors, at most one
\* for each unit it was given
QueueWait ==
  /\ pc = "enqueue"
  /\ i > Len(uploadables)
  /\ \E errs \in ErrorLists :
       /\ Len(errs) <= Len(uploadQueue.added)
       /\ uploadQueue' = [uploadQueue EXCEPT !.errors = errs]
  /\ pc' = "drain"
  /\ i' = 1
  /\ UNCHANGED <<ctxVars, unfiltered, prepVars, checkVars, outVars, callVars,
                 materializeCalls>>

\* what one iteration of the loop over q.Errors() reports for error number k
ReportsOf(k) ==
  LET err == uploadQueue.errors[k] IN
  IF Debugging \/ err.fatal
    THEN <<[call |-> "LoggedError", err |-> k]>>
    ELSE (IF err.inner THEN <<[call |-> "ErrorInner", err |-> k]>> ELSE <<>>)
         \o <<[call |-> "Error", err |-> k]>>

DrainStepShortCircuit ==
  /\ pc = "drain"
  /\ i <= Len(uploadQueue.errors)
  /\ reported' = reported \o ReportsOf(i)
  /\ IF Debugging \/ uploadQueue.errors[i].fatal
       THEN pc' = "exited" /\ exitStatus' = "os.Exit(2)" /\ i' = i
       ELSE i' = i + 1 /\ UNCHANGED <<pc, exitStatus>>
  /\ UNCHANGED <<ctxVars, unfiltered, prepVars, checkVars, uploadQueue, printed,
                 callVars, materializeCalls>>

\* one iteration of the loop over q.Errors()
DrainStep ==
  /\ pc = "drain"
  /\ i <= Len(uploadQueue.errors)
  /\ reported' = reported \o ReportsOf(i)
  /\ i' = i + 1
  /\ UNCHANGED <<ctxVars, pc, unfiltered, prepVars, checkVars, uploadQueue, printed,
                 exitStatus, callVars, materializeCalls>>

\* len(q.Errors()) > 0: os.Exit(2)
ExitTwo ==
  /\ pc = "drain"
  /\ i > Len(uploadQueue.errors)
  /\ Len(uploadQueue.errors) > 0
  /\ exitStatus' = "os.Exit(2)"
  /\ pc' = "exited"
  /\ UNCHANGED <<ctxVars, unfiltered, i, prepVars, checkVars, uploadQueue, printed,
                 reported, callVars, materializeCalls>>

UploadReturnIgnoringErrors ==
  /\ pc = "drain"
  /\ i > Len(uploadQueue.errors)
  /\ pc' = "returned"
  /\ UNCHANGED <<ctxVars, unfiltered, i, prepVars, checkVars, uploadQueue, outVars,
                 callVars, materializeCalls>>

\* no error: upload returns
UploadReturn ==
  /\ pc = "drain"
  /\ i > Len(uploadQueue.errors)
  /\ Len(uploadQueue.errors) = 0
  /\ pc' = "returned"
  /\ UNCHANGED <<ctxVars, unfiltered, i, prepVars, checkVars, uploadQueue, outVars,
                 callVars, materializeCalls>>

Next ==
  \/ UploadCall \/ DryRunStep \/ DryRunReturn
  \/ ClassifyStep \/ CheckMissingEmpty \/ CheckMissingStart
  \/ CheckWorker \/ CheckQueueClose \/ CheckQueueWait
  \/ CollectorRecv \/ CollectorRangeEnd \/ DoneRendezvous
  \/ NewUploadQueue \/ BuildStep \/ PrepareReturn
  \/ EnqueueStep \/ QueueWait \/ DrainStep \/ ExitTwo \/ UploadReturn

Spec == Init /\ [][Next]_vars

\* The Go scheduler runs every runnable goroutine (the collector, the primary
\* task), and the check queue settles every check, closes its watch channel and
\* lets Wait() return.
CheckMissingFairness ==
  /\ WF_vars(CheckWorker)
  /\ WF_vars(CheckQueueClose)
  /\ WF_vars(CheckQueueWait)
  /\ WF_vars(CollectorRecv)
  /\ WF_vars(CollectorRangeEnd)
  /\ WF_vars(DoneRendezvous)

FairSpec == Init /\ [][Next]_vars /\ CheckMissingFairness

\* ------------------------------------------------------------ properties
\* the primary task is past checkMissing in a real-mode upload call
PastCheckMissing ==
  ~DryRun /\ pc \in {"newqueue", "build", "enqueue", "drain", "returned", "exited"}

\* positions 1..n of the candidate list whose oid was not handled when the call began
Counted(n) == {k \in 1..n : OidOf(k) \notin oidsAtCall}

\* positions 1..n that are the first occurrence of an oid not handled when the call began
Fresh(n) == {k \in Counted(n) : \A j \in 1..(k - 1) : OidOf(j) # OidOf(k)}

\* the missing pointers whose oid the check queue emitted, in list order
ConfirmedMissing == SelectSeq(missingLocalObjects, LAMBDA k : OidOf(k) \in emitted)

\* C1: once checkMissing has returned (the primary task is at NewUploadQueue, in
\* the loop that tests HasUploaded on the missing objects, or later), the watch
\* channel is closed and empty, the collector has finished, and every oid sent on
\* the channel is in uploadedOids; the upload queue exists only in such states.
C1_BarrierBeforeDecision ==
  /\ (PastCheckMissing /\ checkQueue.made) =>
       /\ checkQueue.pending = {}
       /\ checkQueue.closed
       /\ transferc = <<>>
       /\ collector = "finished"
       /\ emitted \subseteq uploadedOids
  /\ uploadQueue.made => PastCheckMissing

C1_Witness ==
  pc = "build" /\ i = 1 /\ emitted # {} /\ Len(missingLocalObjects) >= 2

\* C2: while checkMissing runs, uploadedOids stays between its value at the call
\* and that value united with the oids sent on the watch channel; when
\* checkMissing has returned it equals that union exactly, and only oids of
\* missing pointers are ever sent.
C2_OnlyConfirmedMarked ==
  /\ pc \in {"wait", "recvdone"} =>
       /\ oidsAtCall \subseteq uploadedOids
       /\ uploadedOids \subseteq oidsAtCall \cup emitted
  /\ pc \in {"newqueue", "build"} => uploadedOids = oidsAtCall \cup emitted
  /\ emitted \subseteq OidsOfList(missingLocalObjects)

C2_Witness ==
  /\ pc = "newqueue"
  /\ emitted # {}
  /\ emitted # OidsOfList(missingLocalObjects)

\* C3: no step removes an oid from uploadedOids.
C3_Monotone == [][uploadedOids \subseteq uploadedOids']_vars

C3_Witness ==
  /\ oidsAtCall # {}
  /\ uploadedOids # oidsAtCall
  /\ pc = "exited"

\* C4: in a real-mode call, only the first occurrence of an oid that was not
\* handled before the call is classified: the classified pointers are the first
\* occurrences among the candidates seen so far, and the totals count only them.
C4_DuplicatesDeduped ==
  (~DryRun /\ pc = "classify") =>
    /\ Range(uploadables) \cup Range(missingLocalObjects) = Fresh(i - 1)
    /\ numObjects = Cardinality(Fresh(i - 1))
    /\ totalSize = SumSizes(Fresh(i - 1))
    /\ missingSize = SumSizes(Range(missingLocalObjects) \cap Fresh(i - 1))

\* C5: a step that adds a pointer to the transfer queue adds one whose oid is not
\* yet handled (so no oid is added twice in a session).
C5_NoReEnqueue ==
  [][LET a == uploadQueue'.added IN
       Len(a) > Len(uploadQueue.added) => ~HasUploaded(OidOf(a[Len(a)]))]_vars

\* C6: when prepareUpload has returned, the sizes passed to Skip are exactly the
\* sizes of the missing pointers whose oid was confirmed, one call each in list
\* order, and none of these pointers is in the working list or was enqueued.
C6_SkipAccounting ==
  (~DryRun /\ pc \in {"enqueue", "drain", "returned", "exited"}) =>
    /\ uploadQueue.skips =
         [n \in 1..Len(ConfirmedMissing) |-> SizeOf(ConfirmedMissing[n])]
    /\ \A k \in Range(ConfirmedMissing) :
         k \notin Range(uploadables) /\ k \notin Range(uploadQueue.added)

C6_Witness ==
  /\ pc = "enqueue"
  /\ Len(uploadQueue.skips) >= 1
  /\ Len(uploadQueue.skips) < Len(missingLocalObjects)

\* C7: during and after classification, totalSize is the sum of the sizes of the
\* candidates seen whose oid was not handled, numObjects is their number,
\* missingSize is the sum over those of them that fail ObjectExistsOfSize, and
\* missingSize <= totalSize.
C7_Totals ==
  (~DryRun /\ pc # "ready") =>
    LET n == IF pc = "classify" THEN i - 1 ELSE Len(unfiltered)
        C == Counted(n)
        M == {k \in C : ~ObjectExistsOfSize(OidOf(k), SizeOf(k))}
    IN /\ totalSize = SumSizes(C)
       /\ numObjects = Cardinality(C)
       /\ missingSize = SumSizes(M)
       /\ missingSize <= totalSize

C7_Witness ==
  /\ pc = "newqueue"
  /\ missingSize > 0
  /\ missingSize < totalSize
  /\ Len(unfiltered) = 3

\* C8 as stated: at the end of every upload run (a return or an exit) of a
\* session that began the call with an empty set, uploadedOids is the set of the
\* oids of the candidate list.
C8_HandledEqualsInput ==
  (oidsAtCall = {} /\ pc \in {"returned", "exited"}) => uploadedOids = InputOids

\* C8 amended: the same, for the runs that are not aborted by a materialization
\* failure (upload returns, or exits with status 2 after the drain); an aborted
\* run has handled a subset of the oids of the list.
C8_HandledEqualsInputUnlessAborted ==
  /\ (oidsAtCall = {} /\ (pc = "returned" \/ exitStatus = "os.Exit(2)")) =>
       uploadedOids = InputOids
  /\ (oidsAtCall = {} /\ pc = "exited") => uploadedOids \subseteq InputOids

C8_Witness ==
  /\ oidsAtCall = {}
  /\ ~DryRun
  /\ pc = "returned"
  /\ emitted # {}
  /\ Len(uploadQueue.added) >= 1

\* C9: in dry-run mode nothing but the printed lines and uploadedOids is touched:
\* no ObjectExistsOfSize call, no check queue, no collector, no transfer queue,
\* no NewUploadable call, no classification result, no report, no exit.
C9_DryRunFrame ==
  DryRun =>
    /\ existsCalls = 0
    /\ checkQueue = NoCheckQueue
    /\ transferc = <<>>
    /\ emitted = {}
    /\ collector = "none"
    /\ uploadQueue = NoUploadQueue
    /\ materializeCalls = 0
    /\ uploadables = <<>> /\ missingLocalObjects = <<>>
    /\ numObjects = 0 /\ totalSize = 0 /\ missingSize = 0
    /\ reported = <<>>
    /\ exitStatus = ""

C9_Witness ==
  DryRun /\ pc = "returned" /\ Len(printed) >= 2 /\ Len(unfiltered) > Len(printed)

\* C10: when a dry-run upload returns, the printed lines are the first
\* occurrences of the oids that were not handled before the call, in list order,
\* one line per such oid, and every printed oid is handled.
C10_DryRunLines ==
  (DryRun /\ pc = "returned") =>
    /\ Range(printed) = Fresh(Len(unfiltered))
    /\ Increasing(printed)
    /\ OidsOfList(printed) = InputOids \ oidsAtCall
    /\ Cardinality(OidsOfList(printed)) = Len(printed)
    /\ \A k \in Range(printed) : HasUploaded(OidOf(k))

C10_Witness ==
  /\ DryRun
  /\ pc = "returned"
  /\ oidsAtCall # {}
  /\ Len(printed) = 1
  /\ Len(unfiltered) = 3
  /\ unfiltered[2] = unfiltered[3]

\* the current real-mode run ended in Exit or ExitWithError after NewUploadable failed
Aborted == pc = "exited" /\ exitStatus \in {"Exit", "ExitWithError"}

\* C11: a real-mode run that ended without a materialization abort ended in
\* os.Exit(2) exactly if the queue's error list is not empty; with an empty list
\* upload returned and the process has not exited.
C11_ExitTwoIffErrors ==
  (~DryRun /\ pc \in {"returned", "exited"} /\ ~Aborted) =>
    /\ (exitStatus = "os.Exit(2)") <=> (Len(uploadQueue.errors) > 0)
    /\ (pc = "returned") <=> (Len(uploadQueue.errors) = 0)
    /\ pc = "returned" => exitStatus = ""

C11_Witness ==
  /\ pc = "exited"
  /\ exitStatus = "os.Exit(2)"
  /\ Len(uploadQueue.errors) > 0
  /\ Len(reported) > 0

\* C12: when NewUploadable failed for the i-th pointer of the working list, the
\* pointers before it are enqueued and handled, the i-th and every later pointer
\* is neither enqueued nor handled, and the queue wait, the drain and os.Exit(2)
\* were not reached.
C12_AbortKeepsPrefixOnly ==
  Aborted =>
    /\ uploadQueue.added = SubSeq(uploadables, 1, i - 1)
    /\ \A k \in 1..(i - 1) : HasUploaded(OidOf(uploadables[k]))
    /\ \A k \in i..Len(uploadables) :
         /\ uploadables[k] \notin Range(uploadQueue.added)
         /\ ~HasUploaded(OidOf(uploadables[k]))
    /\ uploadQueue.errors = <<>>
    /\ reported = <<>>
    /\ exitStatus # "os.Exit(2)"

\* C13: the step that adds a pointer to the transfer queue marks its oid handled
\* before the next pointer is processed; every enqueued oid stays handled whatever
\* errors the queue reports; and an upload call classifies, checks and enqueues no
\* pointer whose oid was handled when the call began.
C13_OptimisticMarking ==
  /\ [][LET a == uploadQueue'.added IN
          Len(a) > Len(uploadQueue.added) => OidOf(a[Len(a)]) \in uploadedOids']_vars
  /\ [](OidsOfList(uploadQueue.added) \subseteq uploadedOids)
  /\ [](~DryRun =>
          /\ \A k \in Range(uploadables) \cup Range(missingLocalObjects)
                      \cup checkQueue.pending \cup Range(uploadQueue.added) :
               OidOf(k) \notin oidsAtCall
          /\ InputOids \subseteq oidsAtCall => numObjects = 0)

C13_Witness ==
  /\ ~DryRun
  /\ pc = "returned"
  /\ oidsAtCall \cap InputOids # {}
  /\ Len(uploadQueue.added) >= 1
  /\ numObjects < Len(unfiltered)

\* the calls reported for error number k, in the order they were made
CallsFor(k) ==
  LET sel == SelectSeq(reported, LAMBDA e : e.err = k)
  IN [j \in 1..Len(sel) |-> sel[j].call]

\* what the drain loop is to report for error number k
ExpectedCalls(k) ==
  LET err == uploadQueue.errors[k] IN
  CASE Debugging \/ err.fatal -> <<"LoggedError">>
    [] ~(Debugging \/ err.fatal) /\ err.inner -> <<"ErrorInner", "Error">>
    [] OTHER -> <<"Error">>

\* C14: during the drain the errors before the loop index, and once the run has
\* ended all errors of the queue, have been reported once each in list order
\* (LoggedError for a fatal error or in debugging mode, otherwise the inner
\* cause if any and then the error); os.Exit(2) comes after the last report.
C14_DrainReportsAll ==
  (~DryRun /\ pc \in {"drain", "returned", "exited"} /\ ~Aborted) =>
    LET n == IF pc = "drain" THEN i - 1 ELSE Len(uploadQueue.errors)
    IN /\ \A a, b \in 1..Len(reported) : a < b => reported[a].err <= reported[b].err
       /\ \A a \in 1..Len(reported) : reported[a].err \in 1..n
       /\ \A k \in 1..n : CallsFor(k) = ExpectedCalls(k)

C14_Witness ==
  /\ pc = "exited"
  /\ exitStatus = "os.Exit(2)"
  /\ Len(uploadQueue.errors) = MaxErrors
  /\ Len(reported) > Len(uploadQueue.errors)

\* the collector goroutine runs: started, and done <- 1 not yet received
CollectorActive == collector \in {"range", "send"}

\* the primary task is at a step that calls HasUploaded or SetUploaded
PrimaryUsesSet == pc \in {"dryrun", "classify", "build", "enqueue"}

\* C15: while the collector may call SetUploaded, the primary task is inside
\* checkQueue.Wait() or at <-done, and so at no step that reads or writes
\* uploadedOids.
C15_NoConcurrentAccess ==
  CollectorActive => (pc \in {"wait", "recvdone"} /\ ~PrimaryUsesSet)

C15_Witness ==
  /\ collector = "range"
  /\ Len(transferc) > 0
  /\ pc = "recvdone"

\* prepareUpload has returned in the current real-mode call
PrepareReturned == ~DryRun /\ pc \in {"enqueue", "drain", "returned", "exited"}

\* counted candidates that are present locally
LocallyPresent ==
  {k \in Counted(Len(unfiltered)) : ObjectExistsOfSize(OidOf(k), SizeOf(k))}

\* counted candidates that are missing locally and whose oid the remote did not confirm
StillUnconfirmed ==
  {k \in Counted(Len(unfiltered)) :
     ~ObjectExistsOfSize(OidOf(k), SizeOf(k)) /\ OidOf(k) \notin emitted}

\* C16: the working list returned by prepareUpload is the locally present
\* candidates in candidate order followed by the still unconfirmed locally
\* missing candidates in candidate order, and nothing else.
C16_WorkingListOrder ==
  PrepareReturned =>
    LET np == Cardinality(LocallyPresent)
        head == SubSeq(uploadables, 1, np)
        tail == SubSeq(uploadables, np + 1, Len(uploadables))
    IN /\ Len(uploadables) = np + Cardinality(StillUnconfirmed)
       /\ Range(head) = LocallyPresent
       /\ Increasing(head)
       /\ Range(tail) = StillUnconfirmed
       /\ Increasing(tail)

C16_Witness ==
  /\ pc = "enqueue"
  /\ i = 1
  /\ Len(uploadables) = 3
  /\ uploadables[1] > uploadables[3]
  /\ Cardinality(LocallyPresent) = 1

\* C17: while the classification loop runs, uploadedOids is what it was when the
\* call began and no check queue, collector or transfer queue exists; in real
\* mode a step changes uploadedOids only if it is the collector receiving an oid
\* during checkMissing or the enqueue loop adding a unit to the transfer queue.
C17_ClassificationFrame ==
  /\ []((~DryRun /\ pc = "classify") =>
          /\ uploadedOids = oidsAtCall
          /\ checkQueue = NoCheckQueue
          /\ transferc = <<>> /\ emitted = {} /\ collector = "none"
          /\ uploadQueue = NoUploadQueue
          /\ materializeCalls = 0)
  /\ [][(~DryRun /\ uploadedOids' # uploadedOids) =>
          \/ /\ collector = "range"
             /\ pc \in {"wait", "recvdone"}
             /\ Len(transferc') < Len(transferc)
          \/ /\ pc = "enqueue"
             /\ Len(uploadQueue'.added) > Len(uploadQueue.added)]_vars

C17_Witness ==
  /\ ~DryRun
  /\ pc = "classify"
  /\ i > Len(unfiltered)
  /\ Len(unfiltered) = 3
  /\ Len(missingLocalObjects) >= 1
  /\ Len(uploadables) >= 1

\* C18: a real-mode call that repeats the candidate list of the real-mode call
\* that just returned counts nothing, queries and checks nothing, makes no Skip
\* and no Add call, and leaves uploadedOids as it was.
C18_RerunIdempotent ==
  (sameListAgain /\ ~DryRun) =>
    /\ numObjects = 0
    /\ totalSize = 0
    /\ missingSize = 0
    /\ existsCalls = 0
    /\ checkQueue = NoCheckQueue
    /\ collector = "none"
    /\ uploadQueue.skips = <<>>
    /\ uploadQueue.added = <<>>
    /\ materializeCalls = 0
    /\ uploadedOids = oidsAtCall

C18_Witness ==
  /\ sameListAgain
  /\ pc = "returned"
  /\ uploadQueue.made
  /\ Len(unfiltered) >= 2
  /\ Cardinality(InputOids) = 2

\* C19: under fair scheduling a checkMissing that started its queue returns with
\* the collector finished, so the collector's send on done has met the receive
\* (the primary task is inside checkMissing whenever the collector is at its
\* send); a collector is started only
\* by checkMissing with a non-empty missing list, when none exists in the call;
\* once checkMissing has returned the collector has finished, or none was
\* started because the list was empty.
C19_CheckMissingTerminates ==
  /\ (pc \in {"wait", "recvdone"}) ~> (pc = "newqueue" /\ collector = "finished")
  /\ [][(collector' = "range" /\ collector # "range") =>
          (collector = "none" /\ pc = "classify" /\ Len(missingLocalObjects) > 0)]_vars
  /\ [](PastCheckMissing =>
          collector = IF Len(missingLocalObjects) > 0 THEN "finished" ELSE "none")

C19_Witness ==
  /\ pc = "newqueue"
  /\ collector = "finished"
  /\ Len(missingLocalObjects) = 3
  /\ Cardinality(emitted) = 2

RECURSIVE SumSeq(_)
\* sum of a sequence of numbers
SumSeq(s) == IF s = <<>> THEN 0 ELSE Head(s) + SumSeq(Tail(s))

\* the sizes of the units given to the transfer queue, one per Add call
AddedSizes == [n \in 1..Len(uploadQueue.added) |-> SizeOf(uploadQueue.added[n])]

\* q.Wait() is being called or has returned in a run that was not aborted
AtOrAfterQueueWait ==
  /\ ~DryRun
  /\ \/ pc = "enqueue" /\ i > Len(uploadables)
     \/ pc \in {"drain", "returned"}
     \/ pc = "exited" /\ ~Aborted

\* C20: from the call of q.Wait() on, the Add calls and the Skip calls together
\* number the objectCount the queue was constructed with, and the sizes of the
\* enqueued units and the skipped sizes add up to the totalSize it was
\* constructed with.
C20_QueueAccounting ==
  AtOrAfterQueueWait =>
    /\ uploadQueue.count = numObjects
    /\ uploadQueue.total = totalSize
    /\ Len(uploadQueue.added) + Len(uploadQueue.skips) = uploadQueue.count
    /\ SumSeq(AddedSizes) + SumSeq(uploadQueue.skips) = uploadQueue.total

C20_Witness ==
  /\ pc = "enqueue"
  /\ i > Len(uploadables)
  /\ Len(uploadQueue.added) >= 1
  /\ Len(uploadQueue.skips) >= 1
  /\ uploadQueue.count = 3
=============================================================================
